---- MODULE Spec2Model ----
(***************************************************************************)
(* Model of ec2-auto-shutdown-cdk.                                         *)
(*                                                                         *)
(* src/ec2_auto_shutdown/ec2_auto_shutdown_stack.py declares one Lambda    *)
(* function, one EventBridge rule with a cron schedule, and binds the rule *)
(* to the function.  src/tests/unit/test_ec2_auto_shutdown_stack.py        *)
(* instantiates the stack and renders its template.                        *)
(*                                                                         *)
(* The module has two halves over one set of variables:                    *)
(*   - the program: App / Ec2AutoShutdownStack.__init__ / Template          *)
(*     synthesis / the unit test (specification Spec, and SpecRedeclare    *)
(*     which adds a second rule.add_target call);                          *)
(*   - the deployed stack on the provider: deployment, teardown, the       *)
(*     scheduler's clock, invocations, the timeout and the asynchronous    *)
(*     retry policy (specification SpecProvider).                          *)
(*                                                                         *)
(* What a construct call renders to (aws-cdk-lib) and what the provider    *)
(* does with the rendered resources is written next to each definition.    *)
(***************************************************************************)
EXTENDS Integers, Sequences, FiniteSets

VARIABLES
    \* ---- the program
    pc,           \* "none" | "constructed" | "synthesized" | "raised"
    stack,        \* the construct tree built by __init__, or NoStack
    template,     \* the template rendered by Template.from_stack, or NoTemplate
    raised,       \* the error the last instantiation raised, or "none"
    inputs,       \* the inputs of the last instantiation
    rendered,     \* history: inputs -> the templates rendered from them, in order
    runs,         \* how many Apps this process has instantiated
    assetDir,     \* the content of the directory ec2_auto_shutdown/lambda, or AssetAbsent
    testResult,   \* "not-run" | "passed" | "failed"
    redeclared,   \* extra rule.add_target calls made on the stack (SpecRedeclare)
    \* ---- the provider
    deployed,     \* the deployed stack [stackName, template], or NoDeploy
    reported,     \* the last failure on the provider's reporting surface
    clock,        \* [day, tod]: tod = seconds since 00:00:00 UTC
    inv,          \* the invocation event in flight
    firedToday    \* invocations the scheduler triggered since 00:00 of clock.day

progVars == <<pc, stack, template, raised, inputs, rendered, runs, assetDir,
              testResult, redeclared>>
provVars == <<deployed, reported, clock, inv, firedToday>>
vars == <<pc, stack, template, raised, inputs, rendered, runs, assetDir,
          testResult, redeclared, deployed, reported, clock, inv, firedToday>>

-----------------------------------------------------------------------------
(* Bounds of the model *)

MaxRuns == 3
MaxDay == 2
MaxRedeclare == 2

(* Inputs of Ec2AutoShutdownStack.__init__(scope, construct_id, **kwargs).   *)
(* The unit test passes "ec2-auto-shutdown" and no kwargs; a second id and a *)
(* description kwarg (forwarded to Stack.__init__) make inputs differ.       *)
ConstructIds == {"ec2-auto-shutdown", "ec2-auto-shutdown-dev"}
Descriptions == {"", "nightly"}
Inputs == [construct_id : ConstructIds, description : Descriptions]
DefaultInputs == [construct_id |-> "ec2-auto-shutdown", description |-> ""]

NoStack == [id |-> "", description |-> "", constructs |-> {}]
NoTemplate == [Description |-> "", Resources |-> {}]

-----------------------------------------------------------------------------
(* Literals of the declaration *)

FunctionId == "Ec2AutoShutdownFunction"
FunctionRuntime == "python3.13"
FunctionHandler == "handler.lambda_handler"
FunctionCode == "ec2_auto_shutdown/lambda"
RuleId == "DailyShutdownRule"

(* Duration.seconds(n): a duration of n seconds; Duration.minutes(n) is the  *)
(* unit slip.                                                               *)
DurationMinutes(n) == 60 * n
DurationSeconds(n) == n

FunctionTimeout == DurationSeconds(60)

(* The cron fields the declaration passes, as character strings; the        *)
(* variants are a minute left out (Schedule.cron then takes "*") and another *)
(* hour.                                                                     *)
CronMinute_Any == <<"*">>
CronMinute == <<"0">>
CronHour_Morning == <<"6">>
CronHour == <<"1", "8">>

-----------------------------------------------------------------------------
(* events.Schedule.cron(minute=..., hour=...): fields not passed default to  *)
(* "*"; when neither day nor week_day is passed, day is "*" and week_day is  *)
(* "?".  The expression is "cron(" + the six fields joined by " " + ")".     *)

RECURSIVE Join(_)
Join(fields) ==
    IF Len(fields) = 0 THEN <<>>
    ELSE IF Len(fields) = 1 THEN Head(fields)
    ELSE Head(fields) \o <<" ">> \o Join(Tail(fields))

ScheduleCron(minute, hour) ==
    LET day == <<"*">>
        month == <<"*">>
        weekDay == <<"?">>
        year == <<"*">>
    IN  <<"c", "r", "o", "n", "(">>
        \o Join(<<minute, hour, day, month, weekDay, year>>)
        \o <<")">>

-----------------------------------------------------------------------------
(* The construct tree.  A construct is [path, kind, props]; path is its     *)
(* place under the stack, which is also what its logical id is derived from. *)

Construct(path, kind, props) == [path |-> path, kind |-> kind, props |-> props]

Find(self, path) == CHOOSE c \in self.constructs : c.path = path
Has(self, path) == \E c \in self.constructs : c.path = path

(* super().__init__(scope, construct_id, **kwargs): an empty stack node.     *)
StackInit(construct_id, kwargs) ==
    [id |-> construct_id, description |-> kwargs.description, constructs |-> {}]

(* _lambda.Function(self, id, runtime=, handler=, code=, timeout=,           *)
(* retry_attempts=).  When no role is passed the construct creates its own   *)
(* execution role as the child "ServiceRole".  When retry_attempts is passed *)
(* the construct adds the child "EventInvokeConfig" carrying it; when it is  *)
(* not, none is rendered and the service default applies.                    *)
NotPassed == 0 - 1

LambdaFunction(self, id, runtime, handler, code, timeout, retry_attempts) ==
    LET rolePath == <<id, "ServiceRole">>
        config == IF retry_attempts = NotPassed THEN {}
                  ELSE {Construct(<<id, "EventInvokeConfig">>, "EventInvokeConfig",
                            [function |-> <<id>>, retryAttempts |-> retry_attempts])}
        role == Construct(rolePath, "Role",
                    [assumedBy |-> "lambda.amazonaws.com",
                     managedPolicies |-> {"service-role/AWSLambdaBasicExecutionRole"}])
        fn == Construct(<<id>>, "Function",
                    [runtime |-> runtime, handler |-> handler, code |-> code,
                     timeout |-> timeout, role |-> rolePath])
    IN  [self EXCEPT !.constructs = @ \cup {role, fn} \cup config]

(* events.Rule(self, id, schedule=): an enabled rule with no target yet.     *)
EventsRule(self, id, schedule) ==
    [self EXCEPT !.constructs = @ \cup
        {Construct(<<id>>, "Rule",
            [schedule |-> schedule, enabled |-> TRUE, targets |-> <<>>])}]

(* rule.add_target(targets.LambdaFunction(fn)).  Rule.add_target names the   *)
(* target "Target<n>", n the number of targets the rule already has, and     *)
(* appends it.  LambdaFunction.bind grants events.amazonaws.com the right to *)
(* invoke fn from this rule: a permission under the rule whose id is built   *)
(* from fn's unique id (stack id and path), created only if the rule has no  *)
(* child of that id yet.                                                     *)
PermissionPath(self, rulePath, fnPath) ==
    rulePath \o <<"AllowEventRule", self.id>> \o fnPath

add_target_AlwaysGrant(self, rulePath, fnPath) ==
    LET r == Find(self, rulePath)
        n == Len(r.props.targets)
        permPath == PermissionPath(self, rulePath, fnPath) \o <<"Target", n>>
        perm == Construct(permPath, "Permission",
                    [action |-> "lambda:InvokeFunction",
                     principal |-> "events.amazonaws.com",
                     function |-> fnPath, sourceArn |-> rulePath])
        r2 == [r EXCEPT !.props.targets =
                    Append(@, [id |-> <<"Target", n>>, arn |-> fnPath])]
    IN  [self EXCEPT !.constructs = ((@ \ {r}) \cup {r2}) \cup {perm}]

add_target(self, rulePath, fnPath) ==
    LET r == Find(self, rulePath)
        autoGeneratedId == <<"Target", Len(r.props.targets)>>
        permPath == PermissionPath(self, rulePath, fnPath)
        perm == Construct(permPath, "Permission",
                    [action |-> "lambda:InvokeFunction",
                     principal |-> "events.amazonaws.com",
                     function |-> fnPath, sourceArn |-> rulePath])
        r2 == [r EXCEPT !.props.targets =
                    Append(@, [id |-> autoGeneratedId, arn |-> fnPath])]
        granted == IF Has(self, permPath) THEN {} ELSE {perm}
    IN  [self EXCEPT !.constructs = ((@ \ {r}) \cup {r2}) \cup granted]

(* The directory ec2_auto_shutdown/lambda: absent, or holding one version of  *)
(* the handler's files.                                                      *)
AssetAbsent == "absent"
AssetVersions == {"handler-v1", "handler-v2"}
InitialAsset == "handler-v1"

(* Code.from_asset(path) stages the directory and fingerprints its content;  *)
(* the fingerprint tells two contents apart.                                 *)
AssetHash(dir) == <<"sha256", dir>>
from_asset(path, dir) == [path |-> path, assetHash |-> AssetHash(dir)]

(* The three statements of __init__.                                        *)
shutdown_lambda_NoRetry(self, asset) ==
    LambdaFunction(self, FunctionId, FunctionRuntime, FunctionHandler,
                   from_asset(FunctionCode, asset), FunctionTimeout, 0)

shutdown_lambda(self, asset) ==
    LambdaFunction(self, FunctionId, FunctionRuntime, FunctionHandler,
                   from_asset(FunctionCode, asset), FunctionTimeout, NotPassed)

rule(self) == EventsRule(self, RuleId, ScheduleCron(CronMinute, CronHour))

(* Code.from_asset(path) is staged when the function is constructed and      *)
(* raises if the directory does not exist.                                   *)
LambdaAssetPresent == assetDir # AssetAbsent

Raise(error) == [error |-> error, stack |-> NoStack]
Return(self) == [error |-> "none", stack |-> self]

(* Variants of __init__ with one statement lost or changed.                  *)
Ec2AutoShutdownStack_NoTarget(construct_id, kwargs, asset) ==
    IF asset = AssetAbsent THEN Raise("asset-not-found")
    ELSE Return(rule(shutdown_lambda(StackInit(construct_id, kwargs), asset)))

Ec2AutoShutdownStack_TwoRules(construct_id, kwargs, asset) ==
    IF asset = AssetAbsent THEN Raise("asset-not-found")
    ELSE LET s == rule(shutdown_lambda(StackInit(construct_id, kwargs), asset))
             s2 == EventsRule(s, "ExampleRule", ScheduleCron(CronMinute, CronHour))
         IN  Return(add_target(s2, <<RuleId>>, <<FunctionId>>))

Ec2AutoShutdownStack_ImportedFunction(construct_id, kwargs, asset) ==
    IF asset = AssetAbsent THEN Raise("asset-not-found")
    ELSE LET s == rule(StackInit(construct_id, kwargs))
         IN  Return(add_target(s, <<RuleId>>, <<FunctionId>>))

Ec2AutoShutdownStack(construct_id, kwargs, asset) ==
    IF asset = AssetAbsent THEN Raise("asset-not-found")
    ELSE LET self == StackInit(construct_id, kwargs)
             withFunction == shutdown_lambda(self, asset)
             withRule == rule(withFunction)
         IN  Return(add_target(withRule, <<RuleId>>, <<FunctionId>>))

-----------------------------------------------------------------------------
(* Template.from_stack(stack): every construct renders to one resource,      *)
(* keyed by the logical id derived from its path.                            *)

(* The logical id is the path's components run together, followed by a hash *)
(* of the path: one id per path.  The path itself stands for it.             *)
LogicalId(path) == path

(* A staged asset is rendered as its place in the bootstrap bucket: the key  *)
(* is the content fingerprint, so the template changes with the content.     *)
AssetBucket == "cdk-assets-bucket"
AssetKey(hash) == hash \o <<".zip">>
GetAtt(path) == [GetAtt |-> LogicalId(path)]

ToResource(c) ==
    CASE c.kind = "Function" ->
            [LogicalId |-> LogicalId(c.path), Type |-> "AWS::Lambda::Function",
             Properties |-> [Runtime |-> c.props.runtime,
                             Handler |-> c.props.handler,
                             Code |-> [S3Bucket |-> AssetBucket,
                                       S3Key |-> AssetKey(c.props.code.assetHash)],
                             Timeout |-> c.props.timeout,
                             Role |-> GetAtt(c.props.role)]]
      [] c.kind = "Role" ->
            [LogicalId |-> LogicalId(c.path), Type |-> "AWS::IAM::Role",
             Properties |-> [AssumedBy |-> c.props.assumedBy,
                             ManagedPolicies |-> c.props.managedPolicies]]
      [] c.kind = "Rule" ->
            [LogicalId |-> LogicalId(c.path), Type |-> "AWS::Events::Rule",
             Properties |-> [ScheduleExpression |-> c.props.schedule,
                             State |-> IF c.props.enabled THEN "ENABLED" ELSE "DISABLED",
                             Targets |-> [i \in DOMAIN c.props.targets |->
                                 [Id |-> c.props.targets[i].id,
                                  Arn |-> GetAtt(c.props.targets[i].arn)]]]]
      [] c.kind = "EventInvokeConfig" ->
            [LogicalId |-> LogicalId(c.path), Type |-> "AWS::Lambda::EventInvokeConfig",
             Properties |-> [FunctionName |-> GetAtt(c.props.function),
                             MaximumRetryAttempts |-> c.props.retryAttempts]]
      [] c.kind = "Permission" ->
            [LogicalId |-> LogicalId(c.path), Type |-> "AWS::Lambda::Permission",
             Properties |-> [Action |-> c.props.action,
                             Principal |-> c.props.principal,
                             FunctionName |-> GetAtt(c.props.function),
                             SourceArn |-> GetAtt(c.props.sourceArn)]]

from_stack(s) ==
    [Description |-> s.description,
     Resources |-> {ToResource(c) : c \in s.constructs}]

(* Reading a template.                                                       *)
OfType(t, type) == {r \in t.Resources : r.Type = type}
Functions(t) == OfType(t, "AWS::Lambda::Function")
Rules(t) == OfType(t, "AWS::Events::Rule")
Roles(t) == OfType(t, "AWS::IAM::Role")
Permissions(t) == OfType(t, "AWS::Lambda::Permission")
InvokeConfigs(t) == OfType(t, "AWS::Lambda::EventInvokeConfig")
Range(seq) == {seq[i] : i \in DOMAIN seq}
Resolve(t, ref) == {r \in t.Resources : r.LogicalId = ref.GetAtt}

-----------------------------------------------------------------------------
(* The program: instantiation, rendering, the unit test.                     *)

IdleInvocation == [status |-> "idle", elapsed |-> 0, attempt |-> 0, wait |-> 0,
                   timeout |-> 0, trigger |-> "none"]
NoDeploy == [stackName |-> "", template |-> NoTemplate]
Midnight(d) == [day |-> d, tod |-> 0]

Init ==
    /\ pc = "none"
    /\ stack = NoStack
    /\ template = NoTemplate
    /\ raised = "none"
    /\ inputs = DefaultInputs
    /\ rendered = [i \in Inputs |-> <<>>]
    /\ runs = 0
    /\ assetDir \in {AssetAbsent, InitialAsset}
    /\ testResult = "not-run"
    /\ redeclared = 0
    /\ deployed = NoDeploy
    /\ reported = "none"
    /\ clock = Midnight(0)
    /\ inv = IdleInvocation
    /\ firedToday = 0

(* app = core.App(); stack = Ec2AutoShutdownStack(app, construct_id, **kw)   *)
Instantiate(i) ==
    /\ runs < MaxRuns
    /\ LET r == Ec2AutoShutdownStack(i.construct_id, i, assetDir)
       IN  /\ pc' = IF r.error = "none" THEN "constructed" ELSE "raised"
           /\ stack' = r.stack
           /\ raised' = r.error
    /\ inputs' = i
    /\ template' = NoTemplate
    /\ redeclared' = 0
    /\ runs' = runs + 1
    /\ UNCHANGED <<rendered, assetDir, testResult>>
    /\ UNCHANGED provVars

(* template = assertions.Template.from_stack(stack)                          *)
Synthesize ==
    /\ pc = "constructed"
    /\ pc' = "synthesized"
    /\ template' = from_stack(stack)
    /\ rendered' = [rendered EXCEPT ![inputs] = Append(@, from_stack(stack))]
    /\ UNCHANGED <<stack, raised, inputs, runs, assetDir, testResult, redeclared>>
    /\ UNCHANGED provVars

(* The unit test: a fresh App, the stack under its default inputs, the       *)
(* template rendered; the assertion on the template is commented out.  The   *)
(* test fails exactly when a statement of it raises.                         *)
ExampleAssertionHolds(t) ==
    \E r \in t.Resources :
        /\ r.Type = "AWS::SQS::Queue"
        /\ r.Properties.VisibilityTimeout = 300

TestVerdict_Asserting(error, t) ==
    IF error = "none" /\ ExampleAssertionHolds(t) THEN "passed" ELSE "failed"

TestVerdict(error, t) == IF error = "none" THEN "passed" ELSE "failed"

test_sqs_queue_created ==
    /\ runs < MaxRuns
    /\ LET r == Ec2AutoShutdownStack(DefaultInputs.construct_id, DefaultInputs,
                                     assetDir)
           t == IF r.error = "none" THEN from_stack(r.stack) ELSE NoTemplate
       IN  /\ testResult' = TestVerdict(r.error, t)
           /\ rendered' = IF r.error = "none"
                          THEN [rendered EXCEPT ![DefaultInputs] = Append(@, t)]
                          ELSE rendered
    /\ runs' = runs + 1
    /\ UNCHANGED <<pc, stack, template, raised, inputs, assetDir, redeclared>>
    /\ UNCHANGED provVars

(* The handler's files are edited between two runs of the program: the      *)
(* directory holds another version from then on.                             *)
EditHandler ==
    /\ assetDir # AssetAbsent
    /\ assetDir' \in AssetVersions \ {assetDir}
    /\ UNCHANGED <<pc, stack, template, raised, inputs, rendered, runs, testResult,
                   redeclared>>
    /\ UNCHANGED provVars

Next ==
    \/ \E i \in Inputs : Instantiate(i)
    \/ Synthesize
    \/ test_sqs_queue_created
    \/ EditHandler

Spec == Init /\ [][Next]_vars

(* The same program with the binding declared again on the constructed       *)
(* stack: rule.add_target(targets.LambdaFunction(shutdown_lambda)) once more. *)
Redeclare ==
    /\ pc = "constructed"
    /\ redeclared < MaxRedeclare
    /\ stack' = add_target(stack, <<RuleId>>, <<FunctionId>>)
    /\ redeclared' = redeclared + 1
    /\ UNCHANGED <<pc, template, raised, inputs, rendered, runs, assetDir,
                   testResult>>
    /\ UNCHANGED provVars

NextRedeclare ==
    \/ \E i \in Inputs : Instantiate(i)
    \/ Synthesize
    \/ test_sqs_queue_created
    \/ EditHandler
    \/ Redeclare

SpecRedeclare == Init /\ [][NextRedeclare]_vars

-----------------------------------------------------------------------------
(* The provider's reading of a schedule expression: "cron(" six fields       *)
(* separated by blanks ")": minutes, hours, day of month, month, day of      *)
(* week, year.  A field is "*" or "?" (any value) or a decimal number.  The   *)
(* clock carries no calendar, so only the minutes and hours fields may hold   *)
(* a number here.                                                            *)

DigitChars == {"0", "1", "2", "3", "4", "5", "6", "7", "8", "9"}
DigitValue(c) ==
    CASE c = "0" -> 0 [] c = "1" -> 1 [] c = "2" -> 2 [] c = "3" -> 3
      [] c = "4" -> 4 [] c = "5" -> 5 [] c = "6" -> 6 [] c = "7" -> 7
      [] c = "8" -> 8 [] c = "9" -> 9

RECURSIVE Decimal(_)
Decimal(cs) ==
    IF Len(cs) = 0 THEN 0
    ELSE 10 * Decimal(SubSeq(cs, 1, Len(cs) - 1)) + DigitValue(cs[Len(cs)])

RECURSIVE SplitBlank(_, _)
SplitBlank(cs, cur) ==
    IF Len(cs) = 0 THEN <<cur>>
    ELSE IF Head(cs) = " " THEN <<cur>> \o SplitBlank(Tail(cs), <<>>)
    ELSE SplitBlank(Tail(cs), Append(cur, Head(cs)))

IsWildcard(f) == f = <<"*">> \/ f = <<"?">>
IsNumber(f) == Len(f) > 0 /\ \A i \in DOMAIN f : f[i] \in DigitChars

CronFields(expr) ==
    IF /\ Len(expr) >= 6
       /\ SubSeq(expr, 1, 5) = <<"c", "r", "o", "n", "(">>
       /\ expr[Len(expr)] = ")"
    THEN SplitBlank(SubSeq(expr, 6, Len(expr) - 1), <<>>)
    ELSE <<>>

FieldOk(f, max) == IsWildcard(f) \/ (IsNumber(f) /\ Decimal(f) <= max)

ValidSchedule(expr) ==
    LET f == CronFields(expr)
    IN  /\ Len(f) = 6
        /\ FieldOk(f[1], 59)
        /\ FieldOk(f[2], 23)
        /\ \A i \in 3..6 : IsWildcard(f[i])

FieldMatches(f, v) == IsWildcard(f) \/ (IsNumber(f) /\ Decimal(f) = v)

SecondsPerDay == 24 * 60 * 60
HourOf(tod) == tod \div (60 * 60)
MinuteOf(tod) == (tod \div 60) % 60
SecondOf(tod) == tod % 60

(* The expression matches at an instant: a whole minute whose minute and     *)
(* hour the fields accept.                                                   *)
ScheduleMatches(expr, tod) ==
    /\ ValidSchedule(expr)
    /\ SecondOf(tod) = 0
    /\ FieldMatches(CronFields(expr)[1], MinuteOf(tod))
    /\ FieldMatches(CronFields(expr)[2], HourOf(tod))

-----------------------------------------------------------------------------
(* The deployed stack.                                                       *)

(* Deployment validation: every rule's schedule is well formed.              *)
ValidTemplate(t) ==
    \A r \in Rules(t) : ValidSchedule(r.Properties.ScheduleExpression)

(* The invocations a schedule match triggers: one per target of every        *)
(* enabled rule whose expression matches, the target naming a function of    *)
(* the stack.                                                                *)
TargetHits(t, r) ==
    UNION {{<<r.LogicalId, r.Properties.Targets[k].Id, f>> :
                f \in Resolve(t, r.Properties.Targets[k].Arn) \cap Functions(t)} :
           k \in DOMAIN r.Properties.Targets}

Triggered(t, tod) ==
    UNION {TargetHits(t, r) :
           r \in {x \in Rules(t) :
                     /\ x.Properties.State = "ENABLED"
                     /\ ScheduleMatches(x.Properties.ScheduleExpression, tod)}}

(* The function has no event-invoke configuration, so an asynchronous        *)
(* invocation that fails is retried by the service twice more, a minute      *)
(* after the first failure and two minutes after the second.                 *)
MaxRetryAttempts == 2
RetryDelay(attempt) == IF attempt = 0 THEN 60 ELSE 120

RetryLimit(t) ==
    IF InvokeConfigs(t) = {} THEN MaxRetryAttempts
    ELSE (CHOOSE c \in InvokeConfigs(t) : TRUE).Properties.MaximumRetryAttempts

Min(a, b) == IF a <= b THEN a ELSE b
ToBoundary(tod) == 60 - SecondOf(tod)

(* How far time advances in one step: a second while the handler runs (it    *)
(* may end at any second), otherwise to the next instant at which something  *)
(* can happen: the next whole minute or the retry falling due.               *)
Step ==
    CASE inv.status = "running" -> 1
      [] inv.status = "waiting" -> Min(ToBoundary(clock.tod), inv.wait)
      [] OTHER -> ToBoundary(clock.tod)

Start(fn, attempt, trigger) ==
    [status |-> "running", elapsed |-> 0, attempt |-> attempt, wait |-> 0,
     timeout |-> fn.Properties.Timeout, trigger |-> trigger]

(* cdk deploy: the app is synthesized and the template is created or updated *)
(* in place.  An error raised by the app, or a template the provider         *)
(* rejects, leaves the deployed stack as it was and is what is reported.     *)
DeployInputs == {i \in Inputs : i.construct_id = DefaultInputs.construct_id}

Deploy(i) ==
    /\ deployed = NoDeploy \/ deployed.stackName = i.construct_id
    /\ LET r == Ec2AutoShutdownStack(i.construct_id, i, assetDir)
           t == from_stack(r.stack)
       IN  IF r.error # "none"
           THEN /\ reported' = r.error
                /\ UNCHANGED deployed
           ELSE IF ~ValidTemplate(t)
           THEN /\ reported' = "validation-failed"
                /\ UNCHANGED deployed
           ELSE /\ deployed' = [stackName |-> i.construct_id, template |-> t]
                /\ deployed' # deployed
                /\ UNCHANGED reported
    /\ UNCHANGED <<clock, inv, firedToday>>
    /\ UNCHANGED progVars

(* cdk destroy: every resource of the stack is deleted with it.              *)
Teardown ==
    /\ deployed # NoDeploy
    /\ deployed' = NoDeploy
    /\ inv' = IdleInvocation
    /\ UNCHANGED <<reported, clock, firedToday>>
    /\ UNCHANGED progVars

(* Time passes.  At a whole minute the scheduler evaluates the deployed      *)
(* rules; a match starts the invocation (attempt 0) of each target.  One     *)
(* event is followed at a time: a match while an earlier event is still in   *)
(* flight is counted in firedToday and not followed (C1_DailyAtSixPM shows   *)
(* that the declared schedule and timeout never produce one).                *)
Tick ==
    /\ inv.status = "running" => inv.elapsed < inv.timeout
    /\ inv.status = "waiting" => inv.wait > 0
    /\ LET tod == clock.tod + Step
           rollover == tod = SecondsPerDay
           now == IF rollover THEN Midnight(clock.day + 1)
                  ELSE [day |-> clock.day, tod |-> tod]
           hits == Triggered(deployed.template, now.tod)
           aged == CASE inv.status = "running" ->
                            [inv EXCEPT !.elapsed = @ + Step]
                     [] inv.status = "waiting" -> [inv EXCEPT !.wait = @ - Step]
                     [] OTHER -> inv
       IN  /\ now.day < MaxDay
           /\ clock' = now
           /\ firedToday' = (IF rollover THEN 0 ELSE firedToday) + Cardinality(hits)
           /\ inv' = IF hits # {} /\ inv.status = "idle"
                     THEN Start((CHOOSE h \in hits : TRUE)[3], 0, "schedule")
                     ELSE aged
    /\ UNCHANGED <<deployed, reported>>
    /\ UNCHANGED progVars

(* An attempt that ended in failure: reported as it is; retried while the    *)
(* service's retry attempts last, then the event is dropped.                 *)
AfterFailure(cause) ==
    /\ reported' = cause
    /\ inv' = IF inv.attempt < RetryLimit(deployed.template)
              THEN [inv EXCEPT !.status = "waiting", !.wait = RetryDelay(inv.attempt)]
              ELSE IdleInvocation

(* The handler returns, or throws, or is denied the shutdown action, before  *)
(* the timeout.                                                              *)
Outcomes == {"success", "error", "access-denied"}

Finish(outcome) ==
    /\ inv.status = "running"
    /\ inv.elapsed < inv.timeout
    /\ IF outcome = "success"
       THEN inv' = IdleInvocation /\ UNCHANGED reported
       ELSE AfterFailure(outcome)
    /\ UNCHANGED <<deployed, clock, firedToday>>
    /\ UNCHANGED progVars

(* The attempt has run for the function's Timeout: the provider ends it.     *)
TimeoutKill ==
    /\ inv.status = "running"
    /\ inv.elapsed >= inv.timeout
    /\ AfterFailure("timeout")
    /\ UNCHANGED <<deployed, clock, firedToday>>
    /\ UNCHANGED progVars

(* The retry falls due: the service invokes the function again.              *)
Retry ==
    /\ inv.status = "waiting"
    /\ inv.wait = 0
    /\ Functions(deployed.template) # {}
    /\ inv' = Start(CHOOSE f \in Functions(deployed.template) : TRUE,
                    inv.attempt + 1, "retry")
    /\ UNCHANGED <<deployed, reported, clock, firedToday>>
    /\ UNCHANGED progVars

NextProvider ==
    \/ \E i \in DeployInputs : Deploy(i)
    \/ Teardown
    \/ Tick
    \/ \E o \in Outcomes : Finish(o)
    \/ TimeoutKill
    \/ Retry

SpecProvider == Init /\ [][NextProvider]_vars

-----------------------------------------------------------------------------
(* Properties of the rendered template (specification Spec).                 *)

(* Every template rendered so far, and the inputs it was rendered from.      *)
RenderedFrom(i) == Range(rendered[i]) \cup
                   (IF pc = "synthesized" /\ inputs = i THEN {template} ELSE {})
AllRendered == UNION {RenderedFrom(i) : i \in Inputs}

\* C3: every template rendered from the stack holds exactly one function
\* resource and exactly one schedule rule, whatever the inputs.
C3_OneFunctionOneRule ==
    \A t \in AllRendered :
        /\ Cardinality(Functions(t)) = 1
        /\ Cardinality(Rules(t)) = 1

C3_Witness ==
    /\ pc = "synthesized"
    /\ inputs # DefaultInputs
    /\ Len(rendered[DefaultInputs]) >= 1

ExpectedSchedule ==
    <<"c", "r", "o", "n", "(", "0", " ", "1", "8", " ", "*", " ", "*", " ", "?",
      " ", "*", ")">>

(* One rule with the schedule ExpectedSchedule, one function with timeout   *)
(* 60 seconds, the rule's targets naming that function.                      *)
RuleAndFunctionBound(t) ==
    \E f \in Functions(t), r \in Rules(t) :
        /\ Functions(t) = {f}
        /\ Rules(t) = {r}
        /\ r.Properties.ScheduleExpression = ExpectedSchedule
        /\ f.Properties.Timeout = 60
        /\ Len(r.Properties.Targets) >= 1
        /\ \A tg \in Range(r.Properties.Targets) : Resolve(t, tg.Arn) = {f}

\* C4 as stated: with default inputs the template holds the rule
\* cron(0 18 * * ? *) and the function with timeout 60 s bound together, and
\* its resources are exactly the function and the rule.
C4_OnlyFunctionAndRule ==
    \A t \in RenderedFrom(DefaultInputs) :
        /\ RuleAndFunctionBound(t)
        /\ t.Resources = Functions(t) \cup Rules(t)

\* C4 amended: with default inputs the template holds the rule
\* cron(0 18 * * ? *) and the function with timeout 60 s bound together; the
\* only other resources are the function's execution role and the permission
\* that lets the rule invoke the function.
C4_DefaultTemplate ==
    \A t \in RenderedFrom(DefaultInputs) :
        /\ RuleAndFunctionBound(t)
        /\ t.Resources \ (Functions(t) \cup Rules(t)) = Roles(t) \cup Permissions(t)
        /\ Cardinality(Roles(t)) = 1
        /\ Cardinality(Permissions(t)) = 1
        /\ \A f \in Functions(t) : Resolve(t, f.Properties.Role) = Roles(t)
        /\ \A p \in Permissions(t) :
              /\ Resolve(t, p.Properties.FunctionName) = Functions(t)
              /\ Resolve(t, p.Properties.SourceArn) = Rules(t)
              /\ p.Properties.Principal = "events.amazonaws.com"

C4_Witness ==
    /\ pc = "synthesized"
    /\ inputs = DefaultInputs
    /\ Cardinality(template.Resources) > 2

\* C10: the unit test passes exactly when instantiating the stack under a
\* fresh App with default inputs and rendering it raises nothing, which is
\* the case whenever the code asset is in place; the verdict depends on no
\* resource property (an empty template would pass as well).
C10_TestChecksOnlyNoError ==
    /\ testResult # "not-run" =>
          /\ testResult = "passed" <=>
                Ec2AutoShutdownStack(DefaultInputs.construct_id, DefaultInputs,
                                     assetDir).error = "none"
          /\ LambdaAssetPresent => testResult = "passed"
          /\ testResult = "passed" =>
                \A t \in {NoTemplate} \cup AllRendered : TestVerdict("none", t) = "passed"

C10_Witness ==
    /\ testResult = "passed"
    /\ Len(rendered[DefaultInputs]) >= 1

-----------------------------------------------------------------------------
(* Redeclaring the binding (specification SpecRedeclare).                    *)

(* The directory content the constructed stack was staged from.              *)
StagedAsset(s) == Find(s, <<FunctionId>>).props.code.assetHash[2]

DeclaredOnce ==
    from_stack(Ec2AutoShutdownStack(inputs.construct_id, inputs, StagedAsset(stack)).stack)

\* C7 as stated: rule.add_target is idempotent at the declaration level:
\* redeclaring the same binding of DailyShutdownRule to
\* Ec2AutoShutdownFunction renders the same template as declaring it once.
C7_RedeclareIdempotent ==
    stack # NoStack => from_stack(stack) = DeclaredOnce

\* C7 amended: redeclaring the binding leaves the function, its role and the
\* invoke permission as after declaring once (the permission is not
\* duplicated) and leaves the rule's schedule and state alone, but appends
\* one more target entry naming the same function per redeclaration
\* (Target0, Target1, ...): the rule then has 1 + redeclarations targets.
C7_RedeclareAppendsTarget ==
    stack # NoStack =>
        LET now == from_stack(stack)
        IN  /\ now.Resources \ Rules(now) = DeclaredOnce.Resources \ Rules(DeclaredOnce)
            /\ Cardinality(Rules(now)) = 1
            /\ \A r \in Rules(now) :
                  /\ \A o \in Rules(DeclaredOnce) :
                        /\ r.LogicalId = o.LogicalId
                        /\ r.Properties.ScheduleExpression = o.Properties.ScheduleExpression
                        /\ r.Properties.State = o.Properties.State
                  /\ Len(r.Properties.Targets) = 1 + redeclared
                  /\ \A k \in DOMAIN r.Properties.Targets :
                        /\ r.Properties.Targets[k].Id = <<"Target", k - 1>>
                        /\ Resolve(now, r.Properties.Targets[k].Arn) = Functions(now)

C7_Witness ==
    /\ pc = "synthesized"
    /\ redeclared = MaxRedeclare
    /\ template # DeclaredOnce

-----------------------------------------------------------------------------
(* The deployed stack on the provider (specification SpecProvider).          *)

SixPM == 18 * 60 * 60

(* This step is a schedule match that triggered an invocation.               *)
Fired == firedToday' > (IF clock'.day # clock.day THEN 0 ELSE firedToday)

(* This step starts an attempt of the function.                              *)
AttemptStarts == inv'.status = "running" /\ inv.status # "running"

(* This step ends an attempt in failure.                                     *)
InvocationFailures == {"error", "access-denied", "timeout"}
AttemptFails == TimeoutKill \/ \E o \in Outcomes \ {"success"} : Finish(o)

\* C1: the scheduler triggers the bound function only at 18:00:00 UTC and
\* once per day: a trigger happens only at hour 18, minute 0, and is the
\* day's first; every time the clock reaches 18:00 with the stack deployed
\* the function is triggered; an attempt marked as schedule-triggered starts
\* only in such a step.
C1_DailyAtSixPM ==
    [][ /\ Fired =>
              /\ HourOf(clock'.tod) = 18
              /\ MinuteOf(clock'.tod) = 0
              /\ SecondOf(clock'.tod) = 0
              /\ firedToday' = 1
              /\ AttemptStarts
              /\ inv'.trigger = "schedule"
        /\ (clock' # clock /\ clock'.tod = SixPM /\ deployed # NoDeploy) => Fired
        /\ (AttemptStarts /\ inv'.trigger = "schedule") => Fired
      ]_vars

C1_Witness ==
    /\ clock = [day |-> 1, tod |-> SixPM]
    /\ firedToday = 1
    /\ inv.status = "running"
    /\ inv.trigger = "schedule"

\* C2: in every deployed state the rule DailyShutdownRule has exactly one
\* target, and that target is the function Ec2AutoShutdownFunction of the
\* same stack.
C2_OneTargetTheFunction ==
    deployed # NoDeploy =>
        LET t == deployed.template
        IN  \E r \in Rules(t), f \in Functions(t) :
                /\ r.LogicalId = LogicalId(<<RuleId>>)
                /\ f.LogicalId = LogicalId(<<FunctionId>>)
                /\ Len(r.Properties.Targets) = 1
                /\ Resolve(t, r.Properties.Targets[1].Arn) = {f}

C2_Witness ==
    /\ deployed # NoDeploy
    /\ deployed.template.Description = "nightly"
    /\ inv.status = "running"

\* C5: the function's timeout is 60 seconds and bounds every attempt: no
\* attempt runs for more than 60 seconds; one that has run for 60 seconds
\* cannot go on or succeed: time stands until it is ended, and its end is
\* reported as the failure "timeout".
C5_TimeoutBoundsInvocation ==
    /\ [](/\ \A f \in Functions(deployed.template) : f.Properties.Timeout = 60
          /\ inv.status = "running" => inv.elapsed <= 60 /\ inv.timeout = 60)
    /\ [][ (inv.status = "running" /\ inv.elapsed = 60) =>
              /\ clock' = clock
              /\ (inv' # inv /\ deployed' # NoDeploy) =>
                    /\ reported' = "timeout"
                    /\ inv'.status # "running"
         ]_vars

C5_Witness ==
    /\ reported = "timeout"
    /\ inv.status = "waiting"
    /\ clock.tod = SixPM + 60

(* A failure is reported as it is: the error the app raised or the cause     *)
(* the attempt ended with; a failed deployment changes nothing deployed.     *)
ReportedUnchanged ==
    /\ \A o \in Outcomes \ {"success"} : Finish(o) => reported' = o
    /\ TimeoutKill => reported' = "timeout"
    /\ \A i \in DeployInputs :
          LET r == Ec2AutoShutdownStack(i.construct_id, i, assetDir)
          IN  (Deploy(i) /\ r.error # "none") =>
                  reported' = r.error /\ deployed' = deployed

\* C8 as stated: failures are reported unchanged, and a failed invocation
\* never causes a re-invocation before the next schedule match: every
\* attempt starts in a schedule match.
C8_NoReinvocation ==
    [][ /\ ReportedUnchanged
        /\ AttemptStarts => Fired
      ]_vars

\* C8 amended: failures are reported unchanged and nothing of the stack
\* changes the provider's handling of them, so the default asynchronous
\* retry applies: an attempt that does not start in a schedule match is a
\* retry of a failed attempt, and a failed attempt is retried while fewer
\* than two retries were made and dropped after the second.
C8_FailuresReportedDefaultRetry ==
    [][ /\ ReportedUnchanged
        /\ (AttemptStarts /\ ~Fired) =>
              /\ inv.status = "waiting"
              /\ reported \in InvocationFailures
              /\ inv'.trigger = "retry"
              /\ inv'.attempt = inv.attempt + 1
              /\ inv'.attempt <= 2
        /\ AttemptFails =>
              /\ inv.attempt < 2 => inv'.status = "waiting"
              /\ inv.attempt >= 2 => inv' = IdleInvocation
      ]_vars

C8_Witness ==
    /\ inv.status = "running"
    /\ inv.trigger = "retry"
    /\ inv.attempt = 2
    /\ reported = "access-denied"

(* Every binding of the deployed template names a rule and a function of    *)
(* that template; nothing is deployed without the stack.                     *)
BindingIntegrity ==
    LET t == deployed.template
    IN  /\ deployed = NoDeploy => t.Resources = {}
        /\ Functions(t) = {} <=> Rules(t) = {}
        /\ \A r \in Rules(t) : \A tg \in Range(r.Properties.Targets) :
              Resolve(t, tg.Arn) \cap Functions(t) # {}
        /\ \A p \in Permissions(t) :
              /\ Resolve(t, p.Properties.FunctionName) \cap Functions(t) # {}
              /\ Resolve(t, p.Properties.SourceArn) \cap Rules(t) # {}

\* C9: function, rule and binding share the stack's lifecycle: the deployed
\* resources change only in a deployment or a teardown (never in a schedule
\* match, an attempt's end, a timeout or a retry), a teardown leaves none of
\* them, and a binding is never deployed without its rule and its function.
C9_StackLifecycle ==
    /\ []BindingIntegrity
    /\ [][ /\ deployed' # deployed => (Teardown \/ \E i \in DeployInputs : Deploy(i))
           /\ (Tick \/ TimeoutKill \/ Retry \/ \E o \in Outcomes : Finish(o)) =>
                 deployed' = deployed
           /\ Teardown => deployed'.template.Resources = {}
         ]_vars

C9_Witness ==
    /\ deployed = NoDeploy
    /\ firedToday = 1
    /\ reported = "error"

====
